---- MODULE Spec2Model ----
(***************************************************************************)
(* The harvest - classify - package pipeline of the three scrapers          *)
(*   scrapers/run_reentanglements.py  (WordPress REST API, audio/documents) *)
(*   scrapers/run_maa_cambridge.py    (paged catalogue search, images)      *)
(*   scrapers/run_pitt_rivers.py      (single search page, images)          *)
(*                                                                         *)
(* Strings the code searches with regular expressions are sequences of     *)
(* tokens (words or fixed phrases); a file is a record of its name and the  *)
(* kind of bytes it holds; a directory is a set of files with distinct      *)
(* names.                                                                  *)
(***************************************************************************)
EXTENDS Integers, Sequences, FiniteSets, TLC

\* ------------------------------------------------------------------ bounds
MaxCaptionLen == 2      \* tokens in a caption
MaxItems == 3           \* items handled by one scraping run
MaxUnique == 41         \* unique items of a paged listing source
MaxPageSize == 3        \* page size of a paged catalogue (server-chosen)
MaxPages == 3           \* pages of a listing with overlapping pages

None == "None"

Range(s) == {s[i] : i \in DOMAIN s}

Max(a, b) == IF a >= b THEN a ELSE b

SeqsUpTo(S, n) == UNION {[1..k -> S] : k \in 0..n}

\* ------------------------------------------------------- text and patterns

\* The words and phrases captions are made of.  "Catalogue" differs from the
\* pattern's "catalogue" by case only; "Untitled Audio" is the placeholder.
Vocabulary == {"studio", "Catalogue", "interview", "cylinder", "Untitled Audio", "village"}

Captions == SeqsUpTo(Vocabulary, MaxCaptionLen)

\* str.lower() of a token (re.IGNORECASE compares case-folded text).
Lower(tok) ==
    CASE tok = "Catalogue" -> "catalogue"
      [] tok = "Untitled Audio" -> "untitled audio"
      [] tok = "My Song" -> "my song"
      [] tok = ".JPG" -> ".jpg"
      [] OTHER -> tok

\* The alternatives of each pattern that the vocabulary can hit, lower-cased.
MODERN_IMAGE_KEYWORDS == {"studio", "workshop", "exhibition", "interview", "project"}

DOCUMENT_KEYWORDS == {"catalogue", "label", "manuscript", "document"}

MODERN_AUDIO_KEYWORDS == {"discussing", "interview", "podcast", "2019"}

HISTORICAL_AUDIO_KEYWORDS == {"nwt", "bl c51", "northcote thomas", "cylinder", "recording"}

\* re.search(pattern, text, re.IGNORECASE): some token of the text is one of
\* the pattern's alternatives, case ignored.
re_search(pattern, text) == \E i \in DOMAIN text : Lower(text[i]) \in pattern

\* 'phrase' in text: a case-sensitive substring test.
Contains(text, phrase) == \E i \in DOMAIN text : text[i] = phrase

UNTITLED == <<"Untitled Audio">>

\* ------------------------------------------------------------ URLs, the web

\* A URL is the token sequence of its last path segment and query string.
NoSrc == <<>>

ImageUrls ==
    { <<"plate", ".jpg">>, <<"scan", ".png">>, <<"page", ".jpg">>, <<"gone", ".jpg">> }

AudioUrls ==
    { <<"song", ".mp3">>, <<"My Song", ".ogg", "?", "v1">>, <<"talk", ".wav">>,
      <<"lost", ".mp3">> }

\* What a GET of the URL answers: "error" is a timeout or a non-2xx status;
\* otherwise the kind of bytes of the body.  "truncated" is an image whose
\* header parses and whose data does not verify; "html" is no image at all.
Web(url) ==
    CASE url[1] = "plate" -> "jpeg"
      [] url[1] = "scan" -> "truncated"
      [] url[1] = "page" -> "html"
      [] url[1] = "song" -> "mp3"
      [] url[1] = "My Song" -> "mp3"
      [] url[1] = "talk" -> "mp3"
      [] url[1] = "cdn" -> "jpeg"
      [] url[1] = "missing" -> "404"
      [] OTHER -> "error"

\* The request raised, or raise_for_status() did.
RequestFailed(bytes) == bytes \in {"error", "404"}

\* Image.open(path) succeeds (the header identifies an image).
ImageOpens(bytes) == bytes \in {"jpeg", "truncated"}

\* Image.open(path) followed by img.verify() succeeds.
ImageVerifies(bytes) == bytes = "jpeg"

\* file_url.split("?")[0]
RECURSIVE BeforeQuery(_)
BeforeQuery(url) ==
    IF url = <<>> \/ Head(url) = "?" THEN <<>>
    ELSE <<Head(url)>> \o BeforeQuery(Tail(url))

\* re.sub(r'[^\w\s.-]', '', name.lower().replace(" ", "-")) on one token.
SanitizeToken(tok) ==
    CASE tok = "My Song" -> "my-song"
      [] tok = "?" -> ""
      [] OTHER -> Lower(tok)

sanitize_filename(name) == [i \in DOMAIN name |-> SanitizeToken(name[i])]

\* re.search(r'\.(mp3|ogg)(\?|$)', audio_url)
PlayableUrl(url) ==
    \E i \in DOMAIN url :
        /\ url[i] \in {".mp3", ".ogg"}
        /\ (i = Len(url) \/ url[i + 1] = "?")

\* ------------------------------------------------------------- file system

\* open(path, "wb").write(data) / shutil.copy: the file of that name is
\* created or replaced.
WriteFile(dir, name, bytes) ==
    {f \in dir : f.name # name} \cup {[name |-> name, bytes |-> bytes]}

FileNames(dir) == {f.name : f \in dir}

Log(st, line) == [st EXCEPT !.log = Append(@, line)]

\* A log line (logging.info/warning/error, or print): the message, the item
\* it is about and the candidate's index within the item (-1: none).
LogLine(msg, item, index) == [msg |-> msg, item |-> item, index |-> index]

\* ------------------------------------------- run_reentanglements.py: scrape

RAW_AUDIO_DIR == "audio"

RAW_DOC_DIR == "documents"

\* download_file(file_url, save_dir, post_id, index) in state st (the raw
\* directories, the clock in sleep ticks, the log).  result is <<>> for None
\* and <<new_filename>> otherwise.  The file is written before it is
\* validated and stays on disk when validation fails.
download_file(st, file_url, save_dir, post_id, index) ==
    LET bytes == Web(file_url)
        new_filename == [post |-> post_id, index |-> index, ts |-> st.clock,
                         base |-> sanitize_filename(BeforeQuery(file_url))]
        written == [st EXCEPT !.raw[save_dir] = WriteFile(@, new_filename, bytes)]
    IN  IF RequestFailed(bytes)
        THEN [result |-> <<>>,
              st |-> Log(st, LogLine("Failed to download file", post_id, index))]
        ELSE IF save_dir = RAW_DOC_DIR /\ ~ImageOpens(bytes)
        THEN [result |-> <<>>,
              st |-> Log(written, LogLine("not a valid image. Skipping.", post_id, index))]
        ELSE [result |-> <<new_filename>>,
              st |-> [written EXCEPT !.clock = @ + 1]]

Asset(file_name, url, caption) ==
    [file_name |-> file_name, original_url |-> url, raw_caption |-> caption]

\* Mutant: the document pattern is tried before the modern-image pattern.
ClassifyFigure_DocumentFirst(caption_text) ==
    IF re_search(DOCUMENT_KEYWORDS, caption_text) THEN "document"
    ELSE IF re_search(MODERN_IMAGE_KEYWORDS, caption_text) THEN "modern"
    ELSE "non-document"

\* Mutant: a caption matching neither pattern is downloaded like a document.
ClassifyFigure_KeepOthers(caption_text) ==
    IF re_search(MODERN_IMAGE_KEYWORDS, caption_text) THEN "modern"
    ELSE "document"

\* The branch an image caption takes.
ClassifyFigure(caption_text) ==
    IF re_search(MODERN_IMAGE_KEYWORDS, caption_text) THEN "modern"
    ELSE IF re_search(DOCUMENT_KEYWORDS, caption_text) THEN "document"
    ELSE "non-document"

\* One iteration of the loop over figure:has(figcaption), index i.
FigureStep(st, post_id, i, figure) ==
    IF ~figure.img \/ figure.src = NoSrc THEN st
    ELSE
      CASE ClassifyFigure(figure.caption) = "modern" ->
             Log(st, LogLine("Skipping MODERN image", post_id, i))
        [] ClassifyFigure(figure.caption) = "document" ->
             LET d == download_file(Log(st, LogLine("Sorting as DOCUMENT", post_id, i)),
                                    figure.src, RAW_DOC_DIR, post_id, i)
             IN  IF d.result # <<>>
                 THEN [d.st EXCEPT !.documents =
                           Append(@, Asset(d.result[1], figure.src, figure.caption))]
                 ELSE d.st
        [] OTHER ->
             Log(st, LogLine("Skipping (non-document) image", post_id, i))

\* The caption of an audio tag: the placeholder unless the tag sits in a
\* figure with a figcaption (figcaption is <<>> or <<text>>).
AudioCaption(audio_tag) ==
    IF audio_tag.figcaption # <<>> THEN audio_tag.figcaption[1] ELSE UNTITLED

\* Mutant: a historical match is kept whatever else matches.
KeepAudio_HistoricalWins(caption) ==
    LET is_historical == re_search(HISTORICAL_AUDIO_KEYWORDS, caption)
        is_modern == re_search(MODERN_AUDIO_KEYWORDS, caption)
    IN  is_historical \/ (Contains(caption, "Untitled Audio") /\ ~is_modern)

\* The audio keep condition.
KeepAudio(caption) ==
    LET is_historical == re_search(HISTORICAL_AUDIO_KEYWORDS, caption)
        is_modern == re_search(MODERN_AUDIO_KEYWORDS, caption)
    IN  (is_historical \/ Contains(caption, "Untitled Audio")) /\ ~is_modern

\* One iteration of the loop over audio[src], index i.
AudioStep(st, post_id, i, audio_tag) ==
    IF audio_tag.src = NoSrc \/ ~PlayableUrl(audio_tag.src) THEN st
    ELSE
      LET caption == AudioCaption(audio_tag)
      IN  IF KeepAudio(caption)
          THEN LET d == download_file(
                          Log(st, LogLine("Keeping historical/untitled audio", post_id, i)),
                          audio_tag.src, RAW_AUDIO_DIR, post_id, i)
               IN  IF d.result # <<>>
                   THEN [d.st EXCEPT !.audio =
                             Append(@, Asset(d.result[1], audio_tag.src, caption))]
                   ELSE d.st
          ELSE Log(st, LogLine("Skipping modern/ambiguous audio", post_id, i))

RECURSIVE FigureLoop(_, _, _)
FigureLoop(st, post, k) ==
    IF k > Len(post.figures) THEN st
    ELSE FigureLoop(FigureStep(st, post.id, k - 1, post.figures[k]), post, k + 1)

RECURSIVE AudioLoop(_, _, _)
AudioLoop(st, post, k) ==
    IF k > Len(post.audios) THEN st
    ELSE AudioLoop(AudioStep(st, post.id, k - 1, post.audios[k]), post, k + 1)

\* process_post_json(post_json) run in environment env = [raw, clock, log].
\* A post lacking 'id' or 'link' (post.ok false) raises before any candidate is
\* looked at: data is <<>> and raised is TRUE.
process_post_json(env, post) ==
    IF ~post.ok
    THEN [raised |-> TRUE, data |-> <<>>, env |-> env]
    ELSE
      LET st0 == [raw |-> env.raw, clock |-> env.clock, log |-> env.log,
                  documents |-> <<>>, audio |-> <<>>]
          st == AudioLoop(FigureLoop(st0, post, 1), post, 1)
      IN  [raised |-> FALSE,
           data |-> <<[id |-> post.id, audio |-> st.audio, documents |-> st.documents]>>,
           env |-> [raw |-> st.raw, clock |-> st.clock, log |-> st.log]]

\* The body of run_scraper's loop over the posts: the record is written when
\* it carries an asset; an exception is logged and the loop goes on.
ScrapePostStep(env, jsonl, post) ==
    LET r == process_post_json(env, post)
    IN  IF r.raised
        THEN [env |-> Log(r.env, LogLine("Failed to process post ID", post.id, -1)),
              jsonl |-> jsonl]
        ELSE IF r.data[1].audio # <<>> \/ r.data[1].documents # <<>>
        THEN [env |-> r.env, jsonl |-> Append(jsonl, r.data[1])]
        ELSE [env |-> r.env, jsonl |-> jsonl]

\* -------------------------------------------------------------------- state

VARIABLES
    scraper,      \* which script runs: "reent", "maa" or "pitt"
    pc,           \* position in the script's main sequence
    todo,         \* harvested items not yet processed
    done,         \* items processed so far, in order
    raw,          \* raw asset directories: name -> set of files
    raw_jsonl,    \* lines of the raw metadata file
    data_buffer,  \* records accumulated in memory (maa, pitt)
    clock,        \* time.time() in sleep ticks
    log,          \* log lines written so far
    clean,        \* bundle directories
    counts,       \* what the packager returned
    source,       \* the listing the harvest loop reads
    page,         \* page / page_num of the harvest loop
    all_posts,    \* get_all_posts: posts collected
    object_links, \* scrape_maa: links collected
    fetches,      \* page requests made
    hpc,          \* position of the harvest loop
    stop,         \* why the harvest loop ended
    attempt,      \* upload_to_hf: the loop variable of the retry loop
    uploads       \* the upload calls made on the hub, in order, with their outcomes

pipeline == <<scraper, pc, todo, done, raw, raw_jsonl, data_buffer, clock, log, clean, counts>>

harvest == <<source, page, all_posts, object_links, fetches, hpc, stop>>

publish == <<attempt, uploads>>

vars == <<pipeline, harvest, publish>>

EmptyRaw == [audio |-> {}, documents |-> {}, images |-> {}]

EmptyBundle == [assets |-> {}, jsonl |-> <<>>]

EmptyClean == [audio |-> EmptyBundle, documents |-> EmptyBundle, images |-> EmptyBundle]

NoCounts == <<>>

\* The state in which a script starts on the harvested items `items`, the
\* bundle directories holding `prior`.
Start(s, items, prior) ==
    /\ scraper = s
    /\ pc = "scrape"
    /\ todo = items
    /\ done = <<>>
    /\ raw = EmptyRaw
    /\ raw_jsonl = <<>>
    /\ data_buffer = <<>>
    /\ clock = 1
    /\ log = <<>>
    /\ clean = prior
    /\ counts = NoCounts
    /\ source = [kind |-> "none"]
    /\ page = 1
    /\ all_posts = <<>>
    /\ object_links = {}
    /\ fetches = 0
    /\ hpc = "idle"
    /\ stop = "none"
    /\ attempt = 0
    /\ uploads = <<>>

\* run_scraper: one post of the loop.
ScrapePost ==
    /\ scraper = "reent"
    /\ pc = "scrape"
    /\ todo # <<>>
    /\ LET r == ScrapePostStep([raw |-> raw, clock |-> clock, log |-> log],
                               raw_jsonl, Head(todo))
       IN  /\ raw' = r.env.raw
           /\ clock' = r.env.clock
           /\ log' = r.env.log
           /\ raw_jsonl' = r.jsonl
    /\ todo' = Tail(todo)
    /\ done' = Append(done, Head(todo))
    /\ UNCHANGED <<scraper, pc, data_buffer, clean, counts, harvest, publish>>

\* run_scraper: the loop is over.
ScrapeEnd ==
    /\ scraper = "reent"
    /\ pc = "scrape"
    /\ todo = <<>>
    /\ pc' = "pack"
    /\ log' = Append(log, LogLine("Scraper run complete.", 0, -1))
    /\ UNCHANGED <<scraper, todo, done, raw, raw_jsonl, data_buffer, clock, clean, counts, harvest, publish>>

\* ----------------------------------------------- classification of captions

FigureInputs ==
    {[img |-> TRUE, src |-> u, caption |-> c] : u \in ImageUrls \cup {NoSrc}, c \in Captions}
    \cup {[img |-> FALSE, src |-> NoSrc, caption |-> c] : c \in Captions}

AudioInputs ==
    {[src |-> u, figcaption |-> fc] :
        u \in AudioUrls \cup {NoSrc}, fc \in {<<>>} \cup {<<c>> : c \in Captions}}

\* Posts carrying one candidate, over every caption.
ClassifyPosts ==
    {[ok |-> TRUE, id |-> 1, figures |-> <<f>>, audios |-> <<>>] : f \in FigureInputs}
    \cup {[ok |-> TRUE, id |-> 1, figures |-> <<>>, audios |-> <<a>>] : a \in AudioInputs}

InitClassify == \E post \in ClassifyPosts : Start("reent", <<post>>, EmptyClean)

NextClassify == ScrapePost \/ ScrapeEnd

SpecClassify == InitClassify /\ [][NextClassify]_vars

\* The candidates of the processed posts: <<k, i>> is the i-th figure (audio
\* tag) of done[k]; enumerate numbers it i - 1.
FigureCands == UNION {{<<k, i>> : i \in DOMAIN done[k].figures} : k \in DOMAIN done}

AudioCands == UNION {{<<k, i>> : i \in DOMAIN done[k].audios} : k \in DOMAIN done}

\* A figure the extractor turns into a candidate: it has an image with a URL.
IsImageCandidate(f) == f.img /\ f.src # NoSrc

\* An audio tag the extractor turns into a candidate: it has a playable URL.
IsAudioCandidate(a) == a.src # NoSrc /\ PlayableUrl(a.src)

Logged(msg, item, index) == \E j \in DOMAIN log : log[j] = LogLine(msg, item, index)

\* A file of the candidate was written to the raw directory.
Downloaded(dir, post_id, index) ==
    \E f \in raw[dir] : f.name.post = post_id /\ f.name.index = index

\* The candidate is listed in the raw record of its post under `bucket`.
Listed(bucket, post_id, index) ==
    \E j \in DOMAIN raw_jsonl :
        /\ raw_jsonl[j].id = post_id
        /\ \E n \in DOMAIN raw_jsonl[j][bucket] :
               raw_jsonl[j][bucket][n].file_name.index = index

BothImagePatterns(f) ==
    /\ IsImageCandidate(f)
    /\ re_search(MODERN_IMAGE_KEYWORDS, f.caption)
    /\ re_search(DOCUMENT_KEYWORDS, f.caption)

\* C1 as stated: an image candidate whose caption matches the modern-image
\* pattern and the document pattern is classified as document: it is sorted
\* as a document, downloaded, and listed under the record's documents when
\* the download yields an image.
C1_DocumentBeatsModern ==
    \A c \in FigureCands :
        LET post == done[c[1]]
            f == post.figures[c[2]]
        IN  BothImagePatterns(f) =>
              /\ Logged("Sorting as DOCUMENT", post.id, c[2] - 1)
              /\ (ImageOpens(Web(f.src)) => Listed("documents", post.id, c[2] - 1))

\* C1 amended: an image candidate whose caption matches the modern-image
\* pattern and the document pattern is rejected as modern: nothing is
\* downloaded for it and no record lists it (modern rejection beats the
\* document pattern).
C1_ModernBeatsDocument ==
    \A c \in FigureCands :
        LET post == done[c[1]]
            f == post.figures[c[2]]
        IN  BothImagePatterns(f) =>
              /\ Logged("Skipping MODERN image", post.id, c[2] - 1)
              /\ ~Logged("Sorting as DOCUMENT", post.id, c[2] - 1)
              /\ ~Downloaded(RAW_DOC_DIR, post.id, c[2] - 1)
              /\ ~Listed("documents", post.id, c[2] - 1)

C1_Witness ==
    /\ pc = "pack"
    /\ \E c \in FigureCands :
           /\ BothImagePatterns(done[c[1]].figures[c[2]])
           /\ Web(done[c[1]].figures[c[2]].src) = "jpeg"

\* C2: an audio candidate whose caption matches the modern-audio pattern is
\* rejected, also when the caption matches the historical pattern or carries
\* the placeholder: it is never downloaded and never listed under audio.
C2_ModernAudioRejected ==
    \A c \in AudioCands :
        LET post == done[c[1]]
            a == post.audios[c[2]]
        IN  (IsAudioCandidate(a) /\ re_search(MODERN_AUDIO_KEYWORDS, AudioCaption(a))) =>
              /\ Logged("Skipping modern/ambiguous audio", post.id, c[2] - 1)
              /\ ~Logged("Keeping historical/untitled audio", post.id, c[2] - 1)
              /\ ~Downloaded(RAW_AUDIO_DIR, post.id, c[2] - 1)
              /\ ~Listed("audio", post.id, c[2] - 1)

C2_Witness ==
    /\ pc = "pack"
    /\ \E c \in AudioCands :
           LET a == done[c[1]].audios[c[2]]
           IN  /\ IsAudioCandidate(a)
               /\ Web(a.src) = "mp3"
               /\ re_search(MODERN_AUDIO_KEYWORDS, AudioCaption(a))
               /\ re_search(HISTORICAL_AUDIO_KEYWORDS, AudioCaption(a))

NeitherImagePattern(f) ==
    /\ IsImageCandidate(f)
    /\ ~re_search(MODERN_IMAGE_KEYWORDS, f.caption)
    /\ ~re_search(DOCUMENT_KEYWORDS, f.caption)

\* C3 as stated: an image candidate whose caption matches neither the modern
\* pattern nor the document pattern is kept as an image: it is not skipped,
\* and it is downloaded when the download yields an image.
C3_NonMatchingImageKept ==
    \A c \in FigureCands :
        LET post == done[c[1]]
            f == post.figures[c[2]]
        IN  NeitherImagePattern(f) =>
              /\ ~Logged("Skipping (non-document) image", post.id, c[2] - 1)
              /\ (ImageOpens(Web(f.src)) =>
                    \E dir \in DOMAIN raw : Downloaded(dir, post.id, c[2] - 1))

\* C3 amended: an image candidate whose caption matches neither pattern is
\* skipped as a non-document: it is not downloaded and no record lists it;
\* every image candidate ends in exactly one of document, rejected as modern,
\* rejected as non-document.
C3_NonMatchingImageDropped ==
    \A c \in FigureCands :
        LET post == done[c[1]]
            f == post.figures[c[2]]
            i == c[2] - 1
        IN  /\ NeitherImagePattern(f) =>
                 /\ Logged("Skipping (non-document) image", post.id, i)
                 /\ \A dir \in DOMAIN raw : ~Downloaded(dir, post.id, i)
                 /\ ~Listed("documents", post.id, i)
                 /\ ~Listed("audio", post.id, i)
            /\ IsImageCandidate(f) =>
                 Cardinality({m \in {"Skipping MODERN image", "Sorting as DOCUMENT",
                                     "Skipping (non-document) image"} :
                                 Logged(m, post.id, i)}) = 1

C3_Witness ==
    /\ pc = "pack"
    /\ \E c \in FigureCands :
           /\ NeitherImagePattern(done[c[1]].figures[c[2]])
           /\ Web(done[c[1]].figures[c[2]].src) = "jpeg"

\* C4 as stated: an audio candidate is kept exactly when its caption matches
\* the historical pattern or equals the placeholder "Untitled Audio", and
\* matches no modern-audio pattern; every other audio candidate is rejected.
C4_AudioKeptOnlyIfHistoricalOrExactPlaceholder ==
    \A c \in AudioCands :
        LET post == done[c[1]]
            a == post.audios[c[2]]
            caption == AudioCaption(a)
        IN  IsAudioCandidate(a) =>
              /\ Logged("Keeping historical/untitled audio", post.id, c[2] - 1)
                   <=> /\ \/ re_search(HISTORICAL_AUDIO_KEYWORDS, caption)
                          \/ caption = UNTITLED
                       /\ ~re_search(MODERN_AUDIO_KEYWORDS, caption)
              /\ Logged("Skipping modern/ambiguous audio", post.id, c[2] - 1)
                   <=> ~Logged("Keeping historical/untitled audio", post.id, c[2] - 1)

\* ------------------------------------------------------------ link harvest

PER_PAGE == 20

Min(a, b) == IF a <= b THEN a ELSE b

CeilDiv(a, b) == (a + b - 1) \div b

\* Page n (from 1) of the items 1..U served S to a page; <<>> past the end.
Chunk(U, S, n) == [i \in 1..Min(S, U - (n - 1) * S) |-> (n - 1) * S + i]

\* A listing source.  kind "paged": U unique items in pages of fixed size
\* followed by empty pages.  kind "listed": the pages as given (they may
\* overlap), followed by empty pages.  kind "cyclic": the pages as given,
\* served again and again (a page number past the end wraps around); no page
\* is ever empty.  failAt: the page whose request fails
\* (0: none).  tailMarker, tailOk: whether a page past the end still shows the
\* results marker / answers with a success status.
Source(site, kind, U, S, pages, failAt, tailMarker, tailOk) ==
    [site |-> site, kind |-> kind, U |-> U, S |-> S, pages |-> pages,
     failAt |-> failAt, tailMarker |-> tailMarker, tailOk |-> tailOk]

\* get_json_response(api_url, params) for page n: none is TRUE for a None
\* return (request or decode failure).
get_json_response(src, n, per_page) ==
    IF src.failAt = n THEN [none |-> TRUE, json |-> <<>>]
    ELSE IF src.kind = "paged" THEN [none |-> FALSE, json |-> Chunk(src.U, per_page, n)]
    ELSE IF src.kind = "cyclic"
    THEN [none |-> FALSE, json |-> src.pages[((n - 1) % Len(src.pages)) + 1]]
    ELSE IF n <= Len(src.pages) THEN [none |-> FALSE, json |-> src.pages[n]]
    ELSE [none |-> FALSE, json |-> <<>>]

\* Mutant: a page shorter than PER_PAGE is taken for the last one.
ApiStop_ShortPage(r) == r.none \/ Len(r.json) < PER_PAGE

\* if not posts or len(posts) == 0
ApiStop(r) == r.none \/ Len(r.json) = 0

\* get_all_posts: one iteration of the while loop.  The loop has no bound of
\* its own: the first `cap` requests are recorded in full; past them, which
\* only a cyclic source reaches, the posts are no longer appended to the
\* record, the count of requests stays, and the page number is kept modulo
\* the period of the source, which answers page n and page n + period alike.
GetAllPostsPage ==
    /\ hpc = "loop"
    /\ source.site = "api"
    /\ LET r == get_json_response(source, page, PER_PAGE)
           cap == Max(MaxPages, CeilDiv(MaxUnique, PER_PAGE)) + 1
           recorded == fetches < cap
           period == IF source.kind = "cyclic" THEN Len(source.pages) ELSE 1
       IN  /\ fetches' = IF recorded THEN fetches + 1 ELSE fetches
           /\ IF ApiStop(r)
              THEN /\ hpc' = "done"
                   /\ stop' = IF r.none THEN "failed" ELSE "empty"
                   /\ log' = Append(log, LogLine("API query failed at page", page, -1))
                   /\ UNCHANGED <<all_posts, page>>
              ELSE /\ all_posts' = IF recorded THEN all_posts \o r.json ELSE all_posts
                   /\ page' = IF recorded \/ page + 1 <= cap + period
                              THEN page + 1 ELSE page + 1 - period
                   /\ UNCHANGED <<hpc, stop, log>>
    /\ UNCHANGED <<scraper, pc, todo, done, raw, raw_jsonl, data_buffer, clock, clean,
                   counts, source, object_links, publish>>

\* An href of a catalogue page: whether it lies under /photographs/, its last
\* path segment (leaf; digit: the segment holds a digit) and its query string.
Href(photographs, leaf, digit, query) ==
    [photographs |-> photographs, leaf |-> leaf, digit |-> digit, query |-> query]

ItemHref(k) == Href(TRUE, k, TRUE, "")

\* Links every results page carries: pagination, the filtered search, the site.
NavHrefs ==
    { Href(TRUE, 0, FALSE, "page=2"),
      Href(TRUE, 0, FALSE, "filters=image_available"),
      Href(FALSE, 0, FALSE, "") }

QueryHasDigit(q) == q \in {"page=2", "ref=1"}

\* "/photographs/" in h and any(c.isdigit() for c in h.split("/")[-1]) and
\* "page=" not in h and "filters=" not in h
IsItemLink(h) ==
    /\ h.photographs
    /\ (h.digit \/ QueryHasDigit(h.query))
    /\ h.query # "page=2"
    /\ h.query # "filters=image_available"

\* h.split("?")[0]
StripQuery(h) == [h EXCEPT !.query = ""]

\* set(new_links) for the hrefs of one page.
NewLinks(hrefs) == {StripQuery(h) : h \in {x \in hrefs : IsItemLink(x)}}

\* The page the browser shows after goto of results page n.
MaaPage(src, n) ==
    IF src.kind = "paged" /\ n <= CeilDiv(src.U, src.S)
    THEN [ok |-> TRUE, marker |-> TRUE,
          hrefs |-> {ItemHref(k) : k \in Range(Chunk(src.U, src.S, n))} \cup NavHrefs]
    ELSE IF src.kind = "listed" /\ n <= Len(src.pages)
    THEN [ok |-> TRUE, marker |-> TRUE, hrefs |-> src.pages[n] \cup NavHrefs]
    ELSE IF src.kind = "cyclic"
    THEN [ok |-> TRUE, marker |-> TRUE,
          hrefs |-> src.pages[((n - 1) % Len(src.pages)) + 1] \cup NavHrefs]
    ELSE [ok |-> src.tailOk, marker |-> src.tailMarker, hrefs |-> NavHrefs]

\* scrape_maa: the search page is loaded; a failure returns [].
MaaLoad ==
    /\ hpc = "start"
    /\ source.site = "maa"
    /\ fetches' = fetches + 1
    /\ IF source.failAt = 1 \/ ~MaaPage(source, 1).marker
       THEN hpc' = "done" /\ stop' = "load-error"
       ELSE hpc' = "loop" /\ stop' = stop
    /\ UNCHANGED <<pipeline, publish, source, page, all_posts, object_links>>

\* Mutant: the loop stops on a page that lists no link at all.
MaaStop_NoLinks(new_links, unique_new, page_num) == new_links = {} /\ page_num > 1

\* if not unique_new and page_num > 1
MaaStop(new_links, unique_new, page_num) == unique_new = {} /\ page_num > 1

\* scrape_maa: one iteration of the harvest loop: the loaded page is scanned,
\* then the next page is requested.
MaaScan ==
    /\ hpc = "loop"
    /\ source.site = "maa"
    /\ LET new_links == NewLinks(MaaPage(source, page).hrefs)
           unique_new == new_links \ object_links
           next == MaaPage(source, page + 1)
       IN  /\ object_links' = object_links \cup unique_new
           /\ IF MaaStop(new_links, unique_new, page)
              THEN /\ hpc' = "done"
                   /\ stop' = "no-new"
                   /\ UNCHANGED <<page, fetches>>
              ELSE /\ page' = page + 1
                   /\ fetches' = fetches + 1
                   /\ IF source.failAt = page + 1
                      THEN hpc' = "done" /\ stop' = "error"
                      ELSE IF ~next.ok
                      THEN hpc' = "done" /\ stop' = "not-ok"
                      ELSE IF ~next.marker
                      THEN hpc' = "done" /\ stop' = "no-marker"
                      ELSE hpc' = "loop" /\ stop' = stop
    /\ UNCHANGED <<pipeline, publish, source, all_posts>>

ApiPages == {<<1>>, <<1, 2>>, <<2, 3>>}

LinkPool == {ItemHref(1), Href(TRUE, 1, TRUE, "ref=1"), ItemHref(2)}

ApiSources ==
    {Source("api", "paged", U, PER_PAGE, <<>>, 0, TRUE, TRUE) : U \in 0..MaxUnique}
    \cup {Source("api", "listed", 0, PER_PAGE, ps, f, TRUE, TRUE) :
            ps \in SeqsUpTo(ApiPages, MaxPages), f \in 0..MaxPages}
    \cup {Source("api", "cyclic", 0, PER_PAGE, ps, 0, TRUE, TRUE) :
            ps \in {q \in SeqsUpTo(ApiPages, MaxPages) : Len(q) >= 2}}

MaaSources ==
    {Source("maa", "paged", x[1], x[2], <<>>, 0, x[3], x[4]) :
        x \in (0..MaxUnique) \X (1..MaxPageSize) \X BOOLEAN \X BOOLEAN}
    \cup {Source("maa", "listed", 0, 0, x[1], x[2], x[3], x[4]) :
            x \in SeqsUpTo(SUBSET LinkPool, MaxPages) \X (0..MaxPages) \X BOOLEAN \X BOOLEAN}
    \cup {Source("maa", "cyclic", 0, 0, ps, 0, TRUE, TRUE) :
            ps \in SeqsUpTo(SUBSET LinkPool, MaxPages) \ {<<>>}}

InitHarvest ==
    /\ scraper \in {"reent", "maa"}
    /\ pc = "harvest"
    /\ todo = <<>>
    /\ done = <<>>
    /\ raw = EmptyRaw
    /\ raw_jsonl = <<>>
    /\ data_buffer = <<>>
    /\ clock = 1
    /\ log = <<>>
    /\ clean = EmptyClean
    /\ counts = NoCounts
    /\ source \in IF scraper = "reent" THEN ApiSources ELSE MaaSources
    /\ page = 1
    /\ all_posts = <<>>
    /\ object_links = {}
    /\ fetches = 0
    /\ hpc = IF scraper = "reent" THEN "loop" ELSE "start"
    /\ stop = "none"
    /\ attempt = 0
    /\ uploads = <<>>

NextHarvest == GetAllPostsPage \/ MaaLoad \/ MaaScan

SpecHarvest == InitHarvest /\ [][NextHarvest]_vars

\* The loops run on: a harvest that can take a step eventually takes one.
FairSpecHarvest == SpecHarvest /\ WF_vars(NextHarvest)

\* What the harvest returned, as a set of item numbers.
Harvested ==
    IF source.site = "api" THEN Range(all_posts)
    ELSE IF stop = "load-error" THEN {}
    ELSE {l.leaf : l \in object_links}

\* C5 as stated: over a source of U unique items in pages of fixed size S
\* followed by an empty page, each harvest loop returns exactly the U items
\* and makes exactly ceil(U/S)+1 page requests, for every U >= 0.
C5_PagedHarvestFetches ==
    (hpc = "done" /\ source.kind = "paged") =>
        /\ Harvested = 1..source.U
        /\ source.site = "api" => Len(all_posts) = source.U
        /\ fetches = CeilDiv(source.U, source.S) + 1

\* C5 amended: as stated for get_all_posts and every U >= 0, and for the
\* page loop of scrape_maa and every U >= 1; at U = 0 scrape_maa, whose
\* loop never stops on page 1, makes 2 requests when the search page loads
\* (and 1 when it does not).
C5_PagedHarvestFetchesFromOne ==
    (hpc = "done" /\ source.kind = "paged") =>
        /\ Harvested = 1..source.U
        /\ source.site = "api" => Len(all_posts) = source.U
        /\ IF source.site = "maa" /\ source.U = 0
           THEN fetches = IF stop = "load-error" THEN 1 ELSE 2
           ELSE fetches = CeilDiv(source.U, source.S) + 1

C5_Witness ==
    /\ hpc = "done"
    /\ source.kind = "paged"
    /\ source.site = "maa"
    /\ source.U > 2 * source.S
    /\ source.U % source.S # 0
    /\ fetches = CeilDiv(source.U, source.S) + 1

\* The item links of results page n, as the loop extracts them.
PageLinks(n) == NewLinks(MaaPage(source, n).hrefs)

\* The item links of the pages before page n.
SeenBefore(n) == UNION {PageLinks(k) : k \in 1..(n - 1)}

\* How many pages the loop has scanned: the page that ended the loop by the
\* stop rule was scanned; a page whose load ended the loop was not.
Scanned ==
    IF hpc = "start" \/ stop = "load-error" THEN 0
    ELSE IF stop = "no-new" THEN page
    ELSE page - 1

\* C6: the page loop of scrape_maa stops by its rule only at a page N > 1 that
\* adds no link to the accumulated set (whether or not the page lists links),
\* and then no further page is requested; every page scanned before the
\* loop ended added a link (so the stop is at the first such page, and a page
\* with a new link never stops the loop by this rule); the set returned is
\* the union of the item links of the pages scanned.
C6_StopsAtFirstPageWithoutNewLink ==
    source.site = "maa" =>
        /\ stop = "no-new" =>
             /\ hpc = "done"
             /\ page > 1
             /\ PageLinks(page) \subseteq SeenBefore(page)
             /\ fetches = page
        /\ \A n \in 2..Scanned :
               (n < Scanned \/ stop # "no-new") => ~(PageLinks(n) \subseteq SeenBefore(n))
        /\ (hpc = "done" /\ stop # "load-error") =>
               object_links = SeenBefore(Scanned + 1)

C6_Witness ==
    /\ source.site = "maa"
    /\ stop = "no-new"
    /\ page = 3
    /\ PageLinks(page) # {}
    /\ Href(TRUE, 1, TRUE, "ref=1") \in MaaPage(source, page).hrefs

\* ------------------------------------------------ run_maa_cambridge.py: scrape

\* metadata.get("idno", f"maa_unknown_{i}"): the id as its text and, for the
\* fallback, the position i it embeds (-1 otherwise).
MaaIdno(item, i) ==
    IF item.idno = <<>> THEN [name |-> "maa_unknown_", n |-> i]
    ELSE [name |-> item.idno[1], n |-> -1]

\* idno.replace(".", "_").replace(" ", "_").replace("/", "-").strip()
MaaSafeId(idno) ==
    [idno EXCEPT !.name = CASE @ = "N.1" -> "N_1"
                            [] @ = "N 1" -> "N_1"
                            [] OTHER -> @]

\* if "media/" not in u and "collections.maa" not in u: continue
MaaHosted(u) == u[1] # "cdn"

\* The loop over img_urls from its k-th element: st = [dir, saved].
RECURSIVE MaaImageLoop(_, _, _, _)
MaaImageLoop(st, safe_id, img_urls, k) ==
    IF k > Len(img_urls) THEN st
    ELSE
      LET u == img_urls[k]
          fname == [id |-> safe_id, idx |-> k - 1]
          next ==
            IF ~MaaHosted(u) \/ RequestFailed(Web(u)) THEN st
            ELSE [dir |-> WriteFile(st.dir, fname, Web(u)),
                  saved |-> Append(st.saved, [file_name |-> fname, original_url |-> u])]
      IN  MaaImageLoop(next, safe_id, img_urls, k + 1)

\* The record appended for an item whose page loads, and the images directory
\* after its downloads.
MaaRecord(dir, i, item) ==
    LET idno == MaaIdno(item, i)
        st == MaaImageLoop([dir |-> dir, saved |-> <<>>], MaaSafeId(idno), item.img_urls, 1)
    IN  [dir |-> st.dir,
         record |-> [id |-> idno, source_url |-> item.link, images |-> st.saved]]

\* Mutant: the record of an item is appended before its page is loaded.
MaaItemStep_AppendsFirst(env, buffer, i, item) ==
    IF ~item.ok
    THEN [env |-> Log(env, LogLine("Skipped", item.link, -1)),
          buffer |-> Append(buffer, [id |-> MaaIdno(item, i), source_url |-> item.link,
                                     images |-> <<>>])]
    ELSE LET r == MaaRecord(env.raw.images, i, item)
         IN  [env |-> [env EXCEPT !.raw.images = r.dir],
              buffer |-> Append(buffer, r.record)]

\* The body of the loop over link_list (position i, from 0): an item whose
\* page raises is printed as skipped and the loop goes on.
MaaItemStep(env, buffer, i, item) ==
    IF ~item.ok
    THEN [env |-> Log(env, LogLine("Skipped", item.link, -1)), buffer |-> buffer]
    ELSE LET r == MaaRecord(env.raw.images, i, item)
         IN  [env |-> [env EXCEPT !.raw.images = r.dir],
              buffer |-> Append(buffer, r.record)]

\* ------------------------------------------------- run_pitt_rivers.py: scrape

\* metadata.get("accession_number", link.split("/")[-1])
PittItemId(item) ==
    IF item.accession = <<>> THEN [name |-> "item", n |-> item.link]
    ELSE [name |-> item.accession[1], n |-> -1]

\* item_id.replace(".", "_").replace("/", "-").strip()
PittSafeId(item_id) ==
    [item_id EXCEPT !.name = CASE @ = "1998.1" -> "1998_1"
                               [] @ = "1998/1" -> "1998-1"
                               [] OTHER -> @]

\* The item raises: its page does, or the image request does.
PittRaises(item) ==
    ~item.ok \/ (item.img_url # NoSrc /\ Web(item.img_url) = "error")

\* The body of the loop over item_urls.
PittItemStep(env, buffer, item) ==
    IF PittRaises(item)
    THEN [env |-> Log(env, LogLine("Skipped", item.link, -1)), buffer |-> buffer]
    ELSE IF item.img_url = NoSrc \/ Web(item.img_url) = "404"
    THEN [env |-> env, buffer |-> buffer]
    ELSE LET filename == [id |-> PittSafeId(PittItemId(item)), idx |-> 0]
         IN  [env |-> [env EXCEPT !.raw.images = WriteFile(@, filename, Web(item.img_url))],
              buffer |-> Append(buffer,
                  [id |-> PittItemId(item), source_url |-> item.link,
                   images |-> <<[file_name |-> filename, original_url |-> item.img_url]>>])]

\* ------------------------------------------------------------------ packaging

\* shutil.rmtree(dir) followed by os.makedirs(assets)
rmtree(bundle) == EmptyBundle

\* shutil.copy of each of `files` into the directory dst.
CopyFiles(dst, files) == {f \in dst : f.name \notin FileNames(files)} \cup files

Exists(dir, name) == \E f \in dir : f.name = name

FileOf(dir, name) == CHOOSE f \in dir : f.name = name

\* Mutant: the line is written whatever its asset list holds.
KeepLine_Always(assets) == TRUE

\* if doc_data['documents'] / if valid_images
KeepLine(assets) == assets # <<>>

\* Mutant: the bundle directories are created when missing, never removed.
RemoveBundles_Keep(prior) == prior

\* if os.path.exists(CLEAN_AUDIO_DIR): shutil.rmtree(...), likewise documents.
RemoveBundles(prior) ==
    [prior EXCEPT !.audio = rmtree(@), !.documents = rmtree(@)]

\* run_cleaner_and_splitter() over the raw directories and the raw metadata
\* lines, the bundle directories holding `prior`: the bundles after the run
\* and the tuple returned.
run_cleaner_and_splitter(prior, rawdirs, jsonl) ==
    LET removed == RemoveBundles(prior)
        good_files == {f \in rawdirs[RAW_DOC_DIR] : ImageVerifies(f.bytes)}
        good_documents == FileNames(good_files)
        audio_files == rawdirs[RAW_AUDIO_DIR]
        IsGood(doc) == doc.file_name \in good_documents
        aud_data == [j \in DOMAIN jsonl |->
                        [id |-> jsonl[j].id, audio |-> jsonl[j].audio]]
        doc_data == [j \in DOMAIN jsonl |->
                        [id |-> jsonl[j].id, had |-> jsonl[j].documents # <<>>,
                         documents |-> SelectSeq(jsonl[j].documents, IsGood)]]
        AudWritten(l) == l.audio # <<>>
        DocWritten(l) == l.had /\ KeepLine(l.documents)
        aud_lines == SelectSeq(aud_data, AudWritten)
        doc_kept == SelectSeq(doc_data, DocWritten)
        doc_lines == [j \in DOMAIN doc_kept |->
                        [id |-> doc_kept[j].id, documents |-> doc_kept[j].documents]]
    IN  [clean |-> [removed EXCEPT
                      !.audio.assets = CopyFiles(@, audio_files),
                      !.audio.jsonl = aud_lines,
                      !.documents.assets = CopyFiles(@, good_files),
                      !.documents.jsonl = doc_lines],
         counts |-> <<Len(aud_lines), Cardinality(audio_files),
                      Len(doc_lines), Cardinality(good_documents)>>]

\* save_and_repack(data): the bundle after the run and valid_count.
save_and_repack(prior, images_dir, data) ==
    LET IsValid(img) ==
            /\ Exists(images_dir, img.file_name)
            /\ ImageVerifies(FileOf(images_dir, img.file_name).bytes)
        items == [j \in DOMAIN data |->
                    [data[j] EXCEPT !.images = SelectSeq(@, IsValid)]]
        Written(item) == KeepLine(item.images)
        lines == SelectSeq(items, Written)
        copied == {f \in images_dir :
                     \E j \in DOMAIN items : \E n \in DOMAIN items[j].images :
                         items[j].images[n].file_name = f.name}
    IN  [clean |-> [prior EXCEPT !.images.assets = CopyFiles(@, copied),
                                 !.images.jsonl = lines],
         counts |-> <<Len(lines)>>]

\* save_and_upload(data), up to the upload: every entry is written and every
\* image it names is copied.
save_and_upload(prior, images_dir, data) ==
    LET copied == {f \in images_dir :
                     \E j \in DOMAIN data : \E n \in DOMAIN data[j].images :
                         data[j].images[n].file_name = f.name}
    IN  [clean |-> [prior EXCEPT !.images.assets = CopyFiles(@, copied),
                                 !.images.jsonl = data],
         counts |-> NoCounts]

\* ------------------------------------------------------- the three main runs

Env == [raw |-> raw, clock |-> clock, log |-> log]

\* scrape_maa: one item of the loop over link_list.
MaaItem ==
    /\ scraper = "maa"
    /\ pc = "scrape"
    /\ todo # <<>>
    /\ LET r == MaaItemStep(Env, data_buffer, Len(done), Head(todo))
       IN  /\ raw' = r.env.raw
           /\ log' = r.env.log
           /\ data_buffer' = r.buffer
    /\ todo' = Tail(todo)
    /\ done' = Append(done, Head(todo))
    /\ UNCHANGED <<scraper, pc, raw_jsonl, clock, clean, counts, harvest, publish>>

\* scrape_maa returns data_buffer; save_and_repack runs only on records.
MaaEnd ==
    /\ scraper = "maa"
    /\ pc = "scrape"
    /\ todo = <<>>
    /\ pc' = IF data_buffer # <<>> THEN "pack" ELSE "done"
    /\ UNCHANGED <<scraper, todo, done, raw, raw_jsonl, data_buffer, clock, log, clean,
                   counts, harvest, publish>>

\* save_and_repack(data)
SaveAndRepack ==
    /\ scraper = "maa"
    /\ pc = "pack"
    /\ LET r == save_and_repack(clean, raw.images, data_buffer)
       IN  /\ clean' = r.clean
           /\ counts' = r.counts
    /\ raw_jsonl' = data_buffer
    /\ pc' = "packed"
    /\ UNCHANGED <<scraper, todo, done, raw, data_buffer, clock, log, harvest, publish>>

\* scrape_pitt_rivers: one item of the loop over item_urls.
PittItem ==
    /\ scraper = "pitt"
    /\ pc = "scrape"
    /\ todo # <<>>
    /\ LET r == PittItemStep(Env, data_buffer, Head(todo))
       IN  /\ raw' = r.env.raw
           /\ log' = r.env.log
           /\ data_buffer' = r.buffer
    /\ todo' = Tail(todo)
    /\ done' = Append(done, Head(todo))
    /\ UNCHANGED <<scraper, pc, raw_jsonl, clock, clean, counts, harvest, publish>>

\* scrape_pitt_rivers returns; save_and_upload returns at once without data.
PittEnd ==
    /\ scraper = "pitt"
    /\ pc = "scrape"
    /\ todo = <<>>
    /\ pc' = IF data_buffer # <<>> THEN "pack" ELSE "done"
    /\ UNCHANGED <<scraper, todo, done, raw, raw_jsonl, data_buffer, clock, log, clean,
                   counts, harvest, publish>>

\* save_and_upload(data)
SaveAndUpload ==
    /\ scraper = "pitt"
    /\ pc = "pack"
    /\ LET r == save_and_upload(clean, raw.images, data_buffer)
       IN  /\ clean' = r.clean
           /\ counts' = r.counts
    /\ pc' = "packed"
    /\ UNCHANGED <<scraper, todo, done, raw, raw_jsonl, data_buffer, clock, log, harvest, publish>>

\* run_cleaner_and_splitter(): called by main after the scrape, and callable
\* again over the raw directory as it stands.
RunCleanerAndSplitter ==
    /\ scraper = "reent"
    /\ pc \in {"pack", "packed", "repacked"}
    /\ LET r == run_cleaner_and_splitter(clean, raw, raw_jsonl)
       IN  /\ clean' = r.clean
           /\ counts' = r.counts
    /\ pc' = IF pc = "pack" THEN "packed" ELSE "repacked"
    /\ UNCHANGED <<scraper, todo, done, raw, raw_jsonl, data_buffer, clock, log, harvest, publish>>

\* ------------------------------------------------------------- publishing

\* for attempt in range(3)
MAX_ATTEMPTS == 3

\* time.sleep(10), in the ticks of download_file's time.sleep(0.5)
RETRY_SLEEP == 20

\* The log messages of upload_to_hf for a bundle.
UploadMsg ==
    [audio |-> [ok |-> "Successfully uploaded AUDIO dataset.",
                failed |-> "Audio upload attempt failed",
                final |-> "Final audio upload attempt failed."],
     documents |-> [ok |-> "Successfully uploaded DOCUMENT dataset.",
                    failed |-> "Document upload attempt failed",
                    final |-> "Final document upload attempt failed."]]

\* One call of create_repo and upload_folder on the hub.
HubCall(repo, n, ok) == [repo |-> repo, attempt |-> n, ok |-> ok]

\* Mutant: a failed attempt is never followed by the backoff.
Retry_Never(n) == FALSE

\* if attempt < 2
Retry(n) == n < 2

\* One iteration of a retry loop of upload_to_hf, on
\* st = [attempt, uploads, clock, log]: over tells that the loop is left, by
\* break or because range(3) is exhausted.
UploadAttempt(st, bundle, ok) ==
    LET called == [st EXCEPT !.uploads = Append(@, HubCall(bundle, st.attempt, ok))]
        failed == Log(called, LogLine(UploadMsg[bundle].failed, 0, st.attempt + 1))
    IN  IF ok
        THEN [st |-> Log(called, LogLine(UploadMsg[bundle].ok, 0, -1)), over |-> TRUE]
        ELSE [st |-> IF Retry(st.attempt)
                     THEN [Log(failed, LogLine("Retrying in 10 seconds...", 0, -1))
                             EXCEPT !.clock = @ + RETRY_SLEEP]
                     ELSE Log(failed, LogLine(UploadMsg[bundle].final, 0, -1)),
              over |-> st.attempt + 1 >= MAX_ATTEMPTS]

\* main: create_readmes, then upload_to_hf is entered.
CreateReadmes ==
    /\ scraper = "reent"
    /\ pc = "packed"
    /\ pc' = "upload_audio"
    /\ attempt' = 0
    /\ log' = Append(log, LogLine("2 Placeholder READMEs created.", 0, -1))
    /\ UNCHANGED <<scraper, todo, done, raw, raw_jsonl, data_buffer, clock, clean, counts,
                   harvest, uploads>>

\* upload_to_hf: one attempt of the loop of the audio bundle, then of the
\* document bundle; the hub accepts the upload or raises.
UploadToHf ==
    /\ scraper = "reent"
    /\ pc \in {"upload_audio", "upload_documents"}
    /\ \E ok \in BOOLEAN :
         LET bundle == IF pc = "upload_audio" THEN "audio" ELSE "documents"
             r == UploadAttempt([attempt |-> attempt, uploads |-> uploads,
                                 clock |-> clock, log |-> log], bundle, ok)
         IN  /\ uploads' = r.st.uploads
             /\ clock' = r.st.clock
             /\ log' = r.st.log
             /\ attempt' = IF r.over THEN 0 ELSE attempt + 1
             /\ pc' = IF ~r.over THEN pc
                      ELSE IF pc = "upload_audio" THEN "upload_documents" ELSE "uploaded"
    /\ UNCHANGED <<scraper, todo, done, raw, raw_jsonl, data_buffer, clean, counts, harvest>>

\* main: upload_to_hf has returned.
MainEnd ==
    /\ scraper = "reent"
    /\ pc = "uploaded"
    /\ pc' = "complete"
    /\ log' = Append(log, LogLine("SCRAPE COMPLETE!", 0, -1))
    /\ UNCHANGED <<scraper, todo, done, raw, raw_jsonl, data_buffer, clock, clean, counts,
                   harvest, publish>>

\* save_and_upload, the upload: without HF_TOKEN nothing is sent; with it
\* create_repo and upload_folder are called outside any try.
PittUpload ==
    /\ scraper = "pitt"
    /\ pc = "packed"
    /\ \E token \in BOOLEAN, ok \in BOOLEAN :
         /\ uploads' = IF token THEN Append(uploads, HubCall("images", 0, ok)) ELSE uploads
         /\ pc' = IF token /\ ~ok THEN "crashed" ELSE "complete"
         /\ log' = IF token /\ ok THEN Append(log, LogLine("Done!", 0, -1)) ELSE log
    /\ UNCHANGED <<scraper, todo, done, raw, raw_jsonl, data_buffer, clock, clean, counts,
                   harvest, attempt>>

\* ---- inputs of a run

DocFigure(u) == [img |-> TRUE, src |-> u, caption |-> <<"Catalogue", "village">>]

PlainFigure == [img |-> TRUE, src |-> <<"plate", ".jpg">>, caption |-> <<"village">>]

KeptAudio == [src |-> <<"song", ".mp3">>, figcaption |-> <<>>]

ModernAudio == [src |-> <<"song", ".mp3">>, figcaption |-> <<<<"interview", "cylinder">>>>]

LostAudio == [src |-> <<"lost", ".mp3">>, figcaption |-> <<<<"cylinder">>>>]

PostShape(ok, figures, audios) == [ok |-> ok, figures |-> figures, audios |-> audios]

\* The posts a listing can hold, before their ids.
PostShapes ==
    { PostShape(FALSE, <<>>, <<>>),
      PostShape(TRUE, <<DocFigure(<<"plate", ".jpg">>)>>, <<>>),
      PostShape(TRUE, <<DocFigure(<<"scan", ".png">>)>>, <<>>),
      PostShape(TRUE, <<DocFigure(<<"page", ".jpg">>), DocFigure(<<"plate", ".jpg">>)>>,
                <<KeptAudio>>),
      PostShape(TRUE, <<PlainFigure>>, <<ModernAudio>>),
      PostShape(TRUE, <<>>, <<KeptAudio>>),
      PostShape(TRUE, <<DocFigure(<<"scan", ".png">>)>>, <<KeptAudio>>),
      PostShape(TRUE, <<DocFigure(<<"gone", ".jpg">>)>>, <<ModernAudio, LostAudio>>) }

\* WordPress post ids are distinct: the k-th post of the listing has id k.
Posts(shapes) ==
    [k \in DOMAIN shapes |->
        [ok |-> shapes[k].ok, id |-> k, figures |-> shapes[k].figures,
         audios |-> shapes[k].audios]]

MaaShape(ok, idno, img_urls) == [ok |-> ok, idno |-> idno, img_urls |-> img_urls]

MaaShapes ==
    { MaaShape(FALSE, <<>>, <<>>),
      MaaShape(TRUE, <<>>, <<<<"plate", ".jpg">>>>),
      MaaShape(TRUE, <<>>, <<<<"page", ".jpg">>>>),
      MaaShape(TRUE, <<"N.1">>, <<<<"page", ".jpg">>, <<"plate", ".jpg">>>>),
      MaaShape(TRUE, <<"N 1">>, <<<<"plate", ".jpg">>>>),
      MaaShape(TRUE, <<"N.1">>, <<>>),
      MaaShape(TRUE, <<>>, <<<<"cdn", ".jpg">>, <<"scan", ".png">>>>),
      MaaShape(TRUE, <<"P.2">>, <<<<"missing", ".jpg">>, <<"gone", ".jpg">>>>) }

\* link_list = list(object_links): distinct links, the k-th being link k.
MaaItems(shapes) ==
    [k \in DOMAIN shapes |->
        [ok |-> shapes[k].ok, link |-> k, idno |-> shapes[k].idno,
         img_urls |-> shapes[k].img_urls]]

PittShape(ok, accession, img_url) == [ok |-> ok, accession |-> accession, img_url |-> img_url]

PittShapes ==
    { PittShape(FALSE, <<>>, NoSrc),
      PittShape(TRUE, <<>>, <<"plate", ".jpg">>),
      PittShape(TRUE, <<>>, <<"page", ".jpg">>),
      PittShape(TRUE, <<"1998.1">>, <<"plate", ".jpg">>),
      PittShape(TRUE, <<"1998_1">>, <<"scan", ".png">>),
      PittShape(TRUE, <<"1998/1">>, NoSrc),
      PittShape(TRUE, <<>>, <<"missing", ".jpg">>),
      PittShape(TRUE, <<"1998.1">>, <<"gone", ".jpg">>) }

\* item_urls = list(set(item_urls)): distinct links, the k-th being link k.
PittItems(shapes) ==
    [k \in DOMAIN shapes |->
        [ok |-> shapes[k].ok, link |-> k, accession |-> shapes[k].accession,
         img_url |-> shapes[k].img_url]]

\* What the bundle directories of run_reentanglements.py hold from an earlier
\* run (main clears RAW_DIR only; the files of the earlier run bear its
\* timestamps).
StaleFile(base) ==
    [name |-> [post |-> 1, index |-> 0, ts |-> 0, base |-> base], bytes |-> "jpeg"]

StaleClean ==
    [EmptyClean EXCEPT
       !.audio = [assets |-> {StaleFile(<<"song", ".mp3">>)},
                  jsonl |-> <<[id |-> 1, audio |-> <<Asset(StaleFile(<<"song", ".mp3">>).name,
                                               <<"song", ".mp3">>, UNTITLED)>>]>>],
       !.documents = [assets |-> {StaleFile(<<"plate", ".jpg">>)},
                      jsonl |-> <<[id |-> 1, documents |->
                                     <<Asset(StaleFile(<<"plate", ".jpg">>).name,
                                             <<"plate", ".jpg">>, <<"Catalogue">>)>>]>>]]

\* main: run_reentanglements.py starts on whatever the bundle directories
\* hold; setup_directories() of the other two removes everything first.
Init ==
    \/ \E shapes \in SeqsUpTo(PostShapes, MaxItems), prior \in {EmptyClean, StaleClean} :
           Start("reent", Posts(shapes), prior)
    \/ \E shapes \in SeqsUpTo(MaaShapes, MaxItems) :
           Start("maa", MaaItems(shapes), EmptyClean)
    \/ \E shapes \in SeqsUpTo(PittShapes, MaxItems) :
           Start("pitt", PittItems(shapes), EmptyClean)

Next ==
    \/ ScrapePost
    \/ ScrapeEnd
    \/ RunCleanerAndSplitter
    \/ MaaItem
    \/ MaaEnd
    \/ SaveAndRepack
    \/ PittItem
    \/ PittEnd
    \/ SaveAndUpload
    \/ CreateReadmes
    \/ UploadToHf
    \/ MainEnd
    \/ PittUpload

Spec == Init /\ [][Next]_vars

\* ------------------------------------------------- partial-failure isolation

\* The item raises during extraction or processing.
Raises(s, item) == IF s = "pitt" THEN PittRaises(item) ELSE ~item.ok

\* The records a run has put out so far.
Output == IF scraper = "reent" THEN raw_jsonl ELSE data_buffer

\* One item of script s at position i, on st = [env, out].
ItemStep(s, st, item, i) ==
    IF s = "reent"
    THEN LET r == ScrapePostStep(st.env, st.out, item)
         IN  [env |-> r.env, out |-> r.jsonl]
    ELSE IF s = "maa"
    THEN LET r == MaaItemStep(st.env, st.out, i, item)
         IN  [env |-> r.env, out |-> r.buffer]
    ELSE LET r == PittItemStep(st.env, st.out, item)
         IN  [env |-> r.env, out |-> r.buffer]

\* A run of script s from st over entries, each an item and its position.
RECURSIVE RunOver(_, _, _)
RunOver(s, st, entries) ==
    IF entries = <<>> THEN st
    ELSE RunOver(s, ItemStep(s, st, Head(entries).item, Head(entries).i), Tail(entries))

Indexed(items) == [k \in DOMAIN items |-> [item |-> items[k], i |-> k - 1]]

FreshRun == [env |-> [raw |-> EmptyRaw, clock |-> 1, log |-> <<>>], out |-> <<>>]

\* The output of a run over the processed items the failing ones taken out.
OutputWithoutFailing ==
    LET Sound(item) == ~Raises(scraper, item)
    IN  RunOver(scraper, FreshRun, Indexed(SelectSeq(done, Sound))).out

\* The same, each remaining item keeping the position it had.
OutputWithoutFailingInPlace ==
    LET Sound(e) == ~Raises(scraper, e.item)
    IN  RunOver(scraper, FreshRun, SelectSeq(Indexed(done), Sound)).out

ItemName(s, item) == IF s = "reent" THEN item.id ELSE item.link

SkipLogged(s, item) ==
    Logged(IF s = "reent" THEN "Failed to process post ID" ELSE "Skipped",
           ItemName(s, item), -1)

\* C7 as stated: an item that raises contributes no record and is logged as
\* skipped, and the output is exactly the output of the same run without the
\* failing items in the sequence.
C7_AsIfFailingItemAbsent ==
    /\ \A k \in DOMAIN done : Raises(scraper, done[k]) => SkipLogged(scraper, done[k])
    /\ Output = OutputWithoutFailing

\* C7 amended: an item that raises contributes no record and is logged as
\* skipped, processing continues, and every other item's record is in the
\* output as in a run without the failing items -- for scrape_maa with every
\* item keeping its position in link_list, which the fallback id
\* maa_unknown_{i} of an item without idno embeds.
C7_FailingItemIsolated ==
    /\ \A k \in DOMAIN done : Raises(scraper, done[k]) => SkipLogged(scraper, done[k])
    /\ Output = OutputWithoutFailingInPlace
    /\ scraper \in {"reent", "pitt"} => Output = OutputWithoutFailing
    /\ Len(Output) <= Cardinality({k \in DOMAIN done : ~Raises(scraper, done[k])})

C7_Witness ==
    /\ scraper = "maa"
    /\ Len(done) = 3
    /\ ~Raises(scraper, done[1])
    /\ Raises(scraper, done[2])
    /\ ~Raises(scraper, done[3])
    /\ Len(data_buffer) = 2
    /\ data_buffer[2].id = [name |-> "maa_unknown_", n |-> 2]

\* ----------------------------------------------------- the packaged bundles

Packed == pc \in {"packed", "repacked"}

Buckets == {"audio", "documents", "images"}

\* The raw directory that holds the files of a bucket.
RawDirOf(bucket) == raw[bucket]

\* The raw records the packager read.
RawRecords == IF scraper = "reent" THEN raw_jsonl ELSE data_buffer

\* The asset passes the packager's validation: audio is not validated; an
\* image or document must be a file of the raw directory that verifies.
ValidAsset(bucket, asset) ==
    \/ bucket = "audio"
    \/ /\ Exists(RawDirOf(bucket), asset.file_name)
       /\ ImageVerifies(FileOf(RawDirOf(bucket), asset.file_name).bytes)

HasValidAsset(bucket, rec) ==
    /\ bucket \in DOMAIN rec
    /\ \E n \in DOMAIN rec[bucket] : ValidAsset(bucket, rec[bucket][n])

\* C8 as stated: after packaging, no bundle's asset folder holds a file that
\* does not decode as an image, and no bundle's metadata lists an image or
\* document asset whose downloaded bytes do not decode, in any of the three
\* scrapers.
C8_NoUndecodableImageInBundles ==
    Packed =>
        \A bucket \in {"documents", "images"} :
            /\ \A f \in clean[bucket].assets : ImageVerifies(f.bytes)
            /\ \A j \in DOMAIN clean[bucket].jsonl :
                   \A n \in DOMAIN clean[bucket].jsonl[j][bucket] :
                       ImageVerifies(Web(clean[bucket].jsonl[j][bucket][n].original_url))

\* C9: in run_reentanglements.py and run_maa_cambridge.py every line of a
\* bundle's metadata file has a non-empty asset list for the bundle's bucket,
\* holding validated assets only, and a bundle has exactly one line for each
\* raw record with a valid asset of its bucket: a record whose assets of a
\* bucket are all invalid or rejected adds no line to that bundle.
C9_BundleLinesNonEmpty ==
    Packed =>
        \A bucket \in Buckets :
            /\ \A j \in DOMAIN clean[bucket].jsonl :
                   clean[bucket].jsonl[j][bucket] # <<>>
            /\ scraper \in {"reent", "maa"} =>
                   /\ \A j \in DOMAIN clean[bucket].jsonl :
                          \A n \in DOMAIN clean[bucket].jsonl[j][bucket] :
                              ValidAsset(bucket, clean[bucket].jsonl[j][bucket][n])
                   /\ Len(clean[bucket].jsonl) =
                          Cardinality({j \in DOMAIN RawRecords :
                                           HasValidAsset(bucket, RawRecords[j])})

C9_Witness ==
    /\ Packed
    /\ scraper = "reent"
    /\ Len(raw_jsonl) = 3
    /\ clean.audio.jsonl # <<>>
    /\ clean.documents.jsonl # <<>>
    /\ \E j \in DOMAIN raw_jsonl :
           /\ raw_jsonl[j].documents # <<>>
           /\ raw_jsonl[j].audio = <<>>
           /\ ~HasValidAsset("documents", raw_jsonl[j])

\* C10: after run_cleaner_and_splitter the bundle directories and the counts
\* returned are determined by the raw directory alone: the audio assets are
\* the raw audio files, the document assets are the raw document files that
\* verify, every metadata line comes from a raw line, and the counts are those
\* of the bundles; nothing the bundle directories held before is left, and a
\* second run over the same raw directory leaves the same.
C10_BundlesDependOnRawOnly ==
    (Packed /\ scraper = "reent") =>
        /\ clean.audio.assets = raw[RAW_AUDIO_DIR]
        /\ clean.documents.assets = {f \in raw[RAW_DOC_DIR] : ImageVerifies(f.bytes)}
        /\ \A j \in DOMAIN clean.audio.jsonl :
               \E k \in DOMAIN raw_jsonl :
                   /\ raw_jsonl[k].id = clean.audio.jsonl[j].id
                   /\ raw_jsonl[k].audio = clean.audio.jsonl[j].audio
        /\ \A j \in DOMAIN clean.documents.jsonl :
               \E k \in DOMAIN raw_jsonl :
                   /\ raw_jsonl[k].id = clean.documents.jsonl[j].id
                   /\ Range(clean.documents.jsonl[j].documents)
                          \subseteq Range(raw_jsonl[k].documents)
        /\ counts = <<Len(clean.audio.jsonl), Cardinality(clean.audio.assets),
                      Len(clean.documents.jsonl), Cardinality(clean.documents.assets)>>

C10_Witness ==
    /\ pc = "repacked"
    /\ scraper = "reent"
    /\ counts = <<2, 2, 1, 1>>
    /\ Cardinality(raw[RAW_DOC_DIR]) = 3

\* --------------------------------------------------- the raw metadata lines

\* The asset lists of a raw record: audio and documents in
\* run_reentanglements.py, images in run_maa_cambridge.py.
AssetLists(rec) == {rec[b] : b \in DOMAIN rec \cap Buckets}

\* C11 as stated: every record written to a raw metadata file has at least one
\* non-empty asset list; an item of which no asset was kept and downloaded
\* writes no raw metadata line.
C11_RawRecordsHaveAssets ==
    \A j \in DOMAIN raw_jsonl : \E assets \in AssetLists(raw_jsonl[j]) : assets # <<>>

\* ---------------------------------------------------- bounded publish retry

\* The hub calls made for a bundle, in order.
Calls(bundle) ==
    LET Of(c) == c.repo = bundle
    IN  SelectSeq(uploads, Of)

\* The retry loop of the bundle has been left.
LoopLeft(bundle) ==
    IF bundle = "audio" THEN pc \in {"upload_documents", "uploaded", "complete"}
    ELSE pc \in {"uploaded", "complete"}

\* The clock when run_scraper returned.
ClockAfterScrape == RunOver(scraper, FreshRun, Indexed(done)).env.clock

\* C12: upload_to_hf attempts the upload of each bundle at most 3 times, the
\* attempts numbered from 0 in order; no attempt follows a successful one; a
\* failed attempt other than the third is followed by the 10 second backoff
\* and, the loop once left, by another attempt; the third failure, and only
\* it, is logged as final; every audio attempt precedes every document
\* attempt, and the document upload is attempted whatever became of the audio
\* one; main reports completion whatever the outcomes.
C12_BoundedPublishRetry ==
    scraper = "reent" =>
        /\ \A bundle \in {"audio", "documents"} :
               LET calls == Calls(bundle)
               IN  /\ Len(calls) <= MAX_ATTEMPTS
                   /\ \A k \in DOMAIN calls :
                          /\ calls[k].attempt = k - 1
                          /\ calls[k].ok => k = Len(calls)
                   /\ LoopLeft(bundle) =>
                          /\ calls # <<>>
                          /\ calls[Len(calls)].ok \/ Len(calls) = MAX_ATTEMPTS
                   /\ Logged(UploadMsg[bundle].final, 0, -1)
                          <=> (Len(calls) = MAX_ATTEMPTS /\ ~calls[MAX_ATTEMPTS].ok)
        /\ \A i, j \in DOMAIN uploads :
               (i < j /\ uploads[i].repo = "documents") => uploads[j].repo = "documents"
        /\ pc \in {"upload_audio", "upload_documents", "uploaded", "complete"} =>
               clock = ClockAfterScrape + RETRY_SLEEP *
                   Cardinality({k \in DOMAIN uploads :
                                   ~uploads[k].ok /\ uploads[k].attempt + 1 < MAX_ATTEMPTS})
        /\ pc = "complete" => Logged("SCRAPE COMPLETE!", 0, -1)

C12_Witness ==
    /\ scraper = "reent"
    /\ pc = "complete"
    /\ Len(uploads) = 2 * MAX_ATTEMPTS
    /\ \A k \in DOMAIN uploads : ~uploads[k].ok
    /\ Logged("SCRAPE COMPLETE!", 0, -1)

\* ------------------------------------------- the raw directory at a crash

\* The asset files the k-th processed item has in the raw directory.
ItemFiles(k) ==
    IF scraper = "reent"
    THEN {f \in raw[RAW_AUDIO_DIR] \cup raw[RAW_DOC_DIR] : f.name.post = done[k].id}
    ELSE {f \in raw.images : f.name.id = MaaSafeId(MaaIdno(done[k], k - 1))}

\* The raw metadata file has a line of the k-th processed item.
ItemLine(k) ==
    \E j \in DOMAIN raw_jsonl :
        IF scraper = "reent" THEN raw_jsonl[j].id = done[k].id
        ELSE raw_jsonl[j].source_url = done[k].link

\* C13 as stated: wherever the run is terminated, every item it has
\* completed has its asset files and its raw metadata line both in the raw
\* directory, or neither.
C13_FilesAndLineTogether ==
    scraper \in {"reent", "maa"} =>
        \A k \in DOMAIN done : (ItemFiles(k) # {}) <=> ItemLine(k)

\* ------------------------------------------------------ filename collisions

\* The asset references of the run's records under a bucket: <<j, n>> is the
\* n-th asset of the j-th record.
AssetRefs(bucket) ==
    UNION {{<<j, n>> : n \in DOMAIN Output[j][bucket]} :
              j \in {i \in DOMAIN Output : bucket \in DOMAIN Output[i]}}

RefName(bucket, r) == Output[r[1]][bucket][r[2]].file_name

\* C14 as stated: no two distinct asset candidates downloaded in a run are
\* written under the same filename in the same asset directory, so no two
\* asset references of the run's records name the same file, also when two
\* items carry the same identifier or identifiers that sanitize alike.
C14_NoFilenameCollision ==
    \A bucket \in Buckets :
        \A r1, r2 \in AssetRefs(bucket) :
            r1 # r2 => RefName(bucket, r1) # RefName(bucket, r2)

\* ------------------------------------------------------- no failure aborts

\* The script has ended with an uncaught error.
Aborted == pc = "crashed"

\* C15 as stated: the listing once obtained, no failure of an item, of a
\* download or decode, of packaging or of publishing makes a script end with
\* an uncaught error.
C15_NoFailureAbortsTheRun == ~Aborted

\* ----------------------------------------------- packaging inconsistencies

\* The asset references of a bundle's metadata file: <<j, n>> is the n-th
\* asset of its j-th line.
BundleRefs(bucket) ==
    UNION {{<<j, n>> : n \in DOMAIN clean[bucket].jsonl[j][bucket]} :
              j \in DOMAIN clean[bucket].jsonl}

BundleRef(bucket, r) == clean[bucket].jsonl[r[1]][bucket][r[2]]

\* C16 as stated: after packaging every asset reference of a bundle's
\* metadata file, audio included, names a file of that bundle's asset folder;
\* a reference to a raw file that is missing or does not verify when the
\* packager runs is not in the bundle metadata.
C16_DanglingReferencesDropped ==
    Packed =>
        \A bucket \in Buckets :
            \A r \in BundleRefs(bucket) :
                /\ Exists(clean[bucket].assets, BundleRef(bucket, r).file_name)
                /\ Exists(RawDirOf(bucket), BundleRef(bucket, r).file_name)
                /\ ValidAsset(bucket, BundleRef(bucket, r))

\* ----------------------------------------- deduplication and termination

\* C17 as stated: the harvested items are deduplicated by normalized URL or
\* id: no post is collected twice by get_all_posts and no item has two links
\* in object_links, also when listing pages overlap.
C17_EachItemHarvestedOnce ==
    /\ \A i, j \in DOMAIN all_posts : i # j => all_posts[i] # all_posts[j]
    /\ \A l1, l2 \in object_links : l1.leaf = l2.leaf => l1 = l2

\* C18 as stated: over a source of finitely many distinct items each harvest
\* loop eventually terminates, whatever the pages return.
C18_HarvestTerminates == <>(hpc = "done")

====
